---- MODULE Spec2Model ----
(***************************************************************************)
(* A model of the mutable radix tree of package radixtree (radixtree.go).  *)
(*                                                                         *)
(* A node is a record [prefix, value, children]: prefix is the node's      *)
(* []byte, value is the *T pointer (<<>> for nil, <<v>> for a pointer to   *)
(* v), children is the sorted slice of child nodes.  The tree owns its     *)
(* nodes exclusively (parent-to-child links only), so the pointer graph is *)
(* modelled as a nested value and an in-place update of a node as the      *)
(* rebuilding of the path from the root to it.  Indices are 0-based as in  *)
(* the source; c[i + 1] is Go's c[i].                                      *)
(*                                                                         *)
(* Prefixes are modelled by their contents.  In the source a prefix is a   *)
(* slice that may share the backing array of the key passed to Insert;     *)
(* merge appends to it.  Every key passed to Insert is taken to be a slice *)
(* of its own that the caller does not write to afterwards (as in the      *)
(* tests, []byte(string)).                                                 *)
(***************************************************************************)
EXTENDS Integers, Sequences, FiniteSets, TLC

\* Bound of the model: Insert is called while fewer than MaxSize keys are stored.
MaxSize == 3

\* The values stored (T = int; Zero is T's zero value, which may be stored too).
Vals == {0, 1}
Zero == 0

\* The keys the caller uses: the empty key, three one-byte keys (a node with
\* three children), keys that extend one another over three levels (1, 11,
\* 111), keys that diverge inside an edge (11/12, 111/112) and a key on a
\* branch of its own (21).
Keys ==
    { <<>>, <<1>>, <<2>>, <<3>>, <<1, 1>>, <<1, 2>>, <<2, 1>>,
      <<1, 1, 1>>, <<1, 1, 2>> }

VARIABLES root, size, kv, op, ret, inflight

vars == <<root, size, kv, op, ret, inflight>>

----------------------------------------------------------------------------
\* bytes helpers

\* bytes.HasPrefix(s, prefix)
HasPrefix(s, prefix) ==
    /\ Len(prefix) <= Len(s)
    /\ SubSeq(s, 1, Len(prefix)) = prefix

\* s[n:]
Drop(s, n) == SubSeq(s, n + 1, Len(s))

\* s[:n]
Take(s, n) == SubSeq(s, 1, n)

RECURSIVE lcpFrom(_, _, _, _)
lcpFrom(a, b, i, limit) ==
    IF i < limit /\ a[i + 1] = b[i + 1] THEN lcpFrom(a, b, i + 1, limit) ELSE i

longestCommonPrefix(a, b) ==
    LET limit == IF Len(b) < Len(a) THEN Len(b) ELSE Len(a)
    IN  lcpFrom(a, b, 0, limit)

----------------------------------------------------------------------------
\* node and children

NewNode(p, v, c) == [prefix |-> p, value |-> v, children |-> c]

hasValue(n) == n.value # <<>>

\* prefix[0].  On an empty prefix the index is out of range and the call
\* fails: -1, which is no byte, stands for that failure.
first(prefix) == IF Len(prefix) > 0 THEN prefix[1] ELSE -1

\* sort.Search(n, f): binary search for the smallest i in [lo, hi) with
\* c[i].prefix[0] >= b.
RECURSIVE searchFrom(_, _, _, _)
searchFrom(c, b, lo, hi) ==
    IF lo < hi
    THEN LET h == (lo + hi) \div 2
         IN  IF ~(first(c[h + 1].prefix) >= b)
             THEN searchFrom(c, b, h + 1, hi)
             ELSE searchFrom(c, b, lo, h)
    ELSE lo

search(c, b) == searchFrom(c, b, 0, Len(c))

index(c, b) ==
    LET i == search(c, b)
    IN  IF i < Len(c) /\ first(c[i + 1].prefix) = b THEN i ELSE -1

\* The child or nil: <<child>> or <<>>.
get(c, b) ==
    LET i == index(c, b)
    IN  IF i >= 0 THEN <<c[i + 1]>> ELSE <<>>

\* add putting the node first without the search for its place.
addAtFront(c, node) == <<node>> \o c

\* add appending the node without the search for its place.
addAtEnd(c, node) == Append(c, node)

add(c, node) ==
    LET i == search(c, first(node.prefix))
    IN  Take(c, i) \o <<node>> \o Drop(c, i)

\* max written like min: the descent stops at the first node with a value.
RECURSIVE maxLikeMin(_)
maxLikeMin(n) ==
    IF ~hasValue(n) /\ Len(n.children) > 0
    THEN maxLikeMin(n.children[Len(n.children)])
    ELSE IF hasValue(n) THEN <<n.value[1], TRUE>> ELSE <<Zero, FALSE>>

RECURSIVE max(_)
max(n) ==
    IF Len(n.children) > 0
    THEN max(n.children[Len(n.children)])
    ELSE IF hasValue(n) THEN <<n.value[1], TRUE>> ELSE <<Zero, FALSE>>

RECURSIVE min(_)
min(n) ==
    IF ~hasValue(n) /\ Len(n.children) > 0
    THEN min(n.children[1])
    ELSE IF hasValue(n) THEN <<n.value[1], TRUE>> ELSE <<Zero, FALSE>>

----------------------------------------------------------------------------
\* RadixTree operations as functions of the root

New == NewNode(<<>>, <<>>, <<>>)

\* GetStep without the bytes.HasPrefix test: the child is chosen by its first
\* byte alone.
GetStepFirstByte(n, key) == get(n.children, key[1])

\* Lines 114-115: the child the loop of Get moves to (<<child>>), or <<>>
\* when the loop returns not found.
GetStep(n, key) ==
    LET c == get(n.children, key[1])
    IN  IF c = <<>> \/ ~HasPrefix(key, c[1].prefix) THEN <<>> ELSE c

RECURSIVE GetLoop(_, _)
GetLoop(n, key) ==
    IF Len(key) > 0
    THEN LET c == GetStep(n, key)
         IN  IF c = <<>>
             THEN <<Zero, FALSE>>
             ELSE GetLoop(c[1], Drop(key, Len(c[1].prefix)))
    ELSE IF hasValue(n) THEN <<n.value[1], TRUE>> ELSE <<Zero, FALSE>>

Get(t, key) == GetLoop(t, key)

Contains(t, key) == Get(t, key)[2]

\* Len() of a tree whose size field is sz.
TreeLen(sz) == sz

\* The result of Insert: the node as left by the call, the pair returned and
\* the change of t.size.
InsertResult(n, r, d) == [node |-> n, ret |-> r, grow |-> d]

\* Lines 150-166 without line 154: the old child keeps its whole prefix.
InsertSplitKeepPrefix(n, i, key, value, lcm) ==
    LET child    == n.children[i + 1]
        newChild == NewNode(Take(key, lcm), <<>>, <<>>)
        withOld  == [newChild EXCEPT !.children = add(newChild.children, child)]
        rest     == Drop(key, lcm)
        done     == IF Len(rest) = 0
                    THEN [withOld EXCEPT !.value = <<value>>]
                    ELSE [withOld EXCEPT !.children =
                              add(withOld.children, NewNode(rest, <<value>>, <<>>))]
    IN  [n EXCEPT !.children[i + 1] = done]

\* Lines 150-166 without the test of len(key) == 0 at line 157: what is
\* left of the key always goes into a new leaf.
InsertSplitAlwaysLeaf(n, i, key, value, lcm) ==
    LET child    == n.children[i + 1]
        newChild == NewNode(Take(key, lcm), <<>>, <<>>)
        oldChild == [child EXCEPT !.prefix = Drop(child.prefix, lcm)]
        withOld  == [newChild EXCEPT !.children = add(newChild.children, oldChild)]
        done     == [withOld EXCEPT !.children =
                        add(withOld.children, NewNode(Drop(key, lcm), <<value>>, <<>>))]
    IN  [n EXCEPT !.children[i + 1] = done]

\* Lines 150-166: the child at index i of n is split at lcm; n afterwards.
InsertSplitNode(n, i, key, value, lcm) ==
    LET child    == n.children[i + 1]
        newChild == NewNode(Take(key, lcm), <<>>, <<>>)
        oldChild == [child EXCEPT !.prefix = Drop(child.prefix, lcm)]
        withOld  == [newChild EXCEPT !.children = add(newChild.children, oldChild)]
        rest     == Drop(key, lcm)
        done     == IF Len(rest) = 0
                    THEN [withOld EXCEPT !.value = <<value>>]
                    ELSE [withOld EXCEPT !.children =
                              add(withOld.children, NewNode(rest, <<value>>, <<>>))]
    IN  [n EXCEPT !.children[i + 1] = done]

\* InsertSplit without t.size++.
InsertSplitUncounted(n, i, key, value, lcm) ==
    InsertResult(InsertSplitNode(n, i, key, value, lcm), <<Zero, FALSE>>, 0)

\* Lines 150-166 with what Insert returns there and the change of t.size.
InsertSplit(n, i, key, value, lcm) ==
    InsertResult(InsertSplitNode(n, i, key, value, lcm), <<Zero, FALSE>>, 1)

RECURSIVE InsertLoop(_, _, _)
InsertLoop(n, key, value) ==
    IF Len(key) > 0
    THEN LET i == index(n.children, key[1])
         IN  IF i < 0
             THEN InsertResult(
                      [n EXCEPT !.children = add(n.children, NewNode(key, <<value>>, <<>>))],
                      <<Zero, FALSE>>, 1)
             ELSE LET child == n.children[i + 1]
                      lcm   == longestCommonPrefix(key, child.prefix)
                  IN  IF lcm < Len(child.prefix)
                      THEN InsertSplit(n, i, key, value, lcm)
                      ELSE LET r == InsertLoop(child, Drop(key, lcm), value)
                           IN  InsertResult([n EXCEPT !.children[i + 1] = r.node],
                                            r.ret, r.grow)
    ELSE IF hasValue(n)
         THEN InsertResult([n EXCEPT !.value = <<value>>], <<n.value[1], TRUE>>, 0)
         ELSE InsertResult([n EXCEPT !.value = <<value>>], <<Zero, FALSE>>, 1)

InsertOp(t, key, value) == InsertLoop(t, key, value)

\* Lines 150-155 with newChild filled before it is put in the place of the
\* child: line 155 ahead of line 153.
InsertSplitAttachFirst(n, i, key, lcm, stage) ==
    LET child    == n.children[i + 1]
        newChild == NewNode(Take(key, lcm), <<>>, <<>>)
        oldChild == [child EXCEPT !.prefix = Drop(child.prefix, lcm)]
        withOld  == [newChild EXCEPT !.children = add(newChild.children, oldChild)]
    IN  [n EXCEPT !.children[i + 1] = withOld]

\* The split of lines 150-155 statement by statement; n as the other
\* goroutines find it once the call has run up to and including
\*   "replaced": n.children[i] = newChild            (line 153)
\*   "attached": newChild.children.add(child)        (lines 154-155)
\* Between the two the old child hangs from no node of the tree.
InsertSplitUpTo(n, i, key, lcm, stage) ==
    LET child    == n.children[i + 1]
        newChild == NewNode(Take(key, lcm), <<>>, <<>>)
        oldChild == [child EXCEPT !.prefix = Drop(child.prefix, lcm)]
        withOld  == [newChild EXCEPT !.children = add(newChild.children, oldChild)]
    IN  IF stage = "replaced"
        THEN [n EXCEPT !.children[i + 1] = newChild]
        ELSE [n EXCEPT !.children[i + 1] = withOld]

\* The descent of Insert (lines 137-170) down to the split, and the split
\* run up to stage.  split tells whether the call splits an edge at all;
\* node is the tree as found at that stage.
RECURSIVE InsertLoopUpTo(_, _, _)
InsertLoopUpTo(n, key, stage) ==
    IF Len(key) > 0
    THEN LET i == index(n.children, key[1])
         IN  IF i < 0
             THEN [split |-> FALSE, node |-> n]
             ELSE LET child == n.children[i + 1]
                      lcm   == longestCommonPrefix(key, child.prefix)
                  IN  IF lcm < Len(child.prefix)
                      THEN [split |-> TRUE,
                            node  |-> InsertSplitUpTo(n, i, key, lcm, stage)]
                      ELSE LET r == InsertLoopUpTo(child, Drop(key, lcm), stage)
                           IN  [split |-> r.split,
                                node  |-> [n EXCEPT !.children[i + 1] = r.node]]
    ELSE [split |-> FALSE, node |-> n]

\* merge without line 323: the node keeps its own children.
mergeKeepChildren(n) ==
    LET child == n.children[1]
    IN  NewNode(n.prefix \o child.prefix, child.value, n.children)

\* merge without line 321: the node keeps its own prefix.
mergeKeepPrefix(n) ==
    LET child == n.children[1]
    IN  NewNode(n.prefix, child.value, child.children)

\* Lines 319-324.
merge(n) ==
    LET child == n.children[1]
    IN  NewNode(n.prefix \o child.prefix, child.value, child.children)

RemoveResult(n, r, d) == [node |-> n, ret |-> r, shrink |-> d]

\* Lines 291-308: the three steps without the last, the merge of the parent.
RemoveAtChildOnly(parent, i, parentIsRoot) ==
    LET n       == parent.children[i + 1]
        cleared == [n EXCEPT !.value = <<>>]
        p1      == IF Len(cleared.children) = 0
                   THEN [parent EXCEPT !.children = Take(@, i) \o Drop(@, i + 1)]
                   ELSE [parent EXCEPT !.children[i + 1] = cleared]
    IN  IF Len(cleared.children) = 1
        THEN [p1 EXCEPT !.children[i + 1] = merge(cleared)]
        ELSE p1

\* Lines 291-313 without the deletion of a childless node (lines 295-298):
\* the node stays in its parent with its value cleared.
RemoveAtKeepLeaf(parent, i, parentIsRoot) ==
    LET n       == parent.children[i + 1]
        cleared == [n EXCEPT !.value = <<>>]
        p1      == [parent EXCEPT !.children[i + 1] = cleared]
        p2      == IF Len(cleared.children) = 1
                   THEN [p1 EXCEPT !.children[i + 1] = merge(cleared)]
                   ELSE p1
    IN  IF ~parentIsRoot /\ Len(p2.children) = 1 /\ ~hasValue(p2)
        THEN merge(p2)
        ELSE p2

\* Lines 291-313 without the test parent != t.root at line 309: the root is
\* merged with its only child like any other parent.
RemoveAtRootToo(parent, i, parentIsRoot) ==
    LET n       == parent.children[i + 1]
        cleared == [n EXCEPT !.value = <<>>]
        p1      == IF Len(cleared.children) = 0
                   THEN [parent EXCEPT !.children = Take(@, i) \o Drop(@, i + 1)]
                   ELSE [parent EXCEPT !.children[i + 1] = cleared]
        p2      == IF Len(cleared.children) = 1
                   THEN [p1 EXCEPT !.children[i + 1] = merge(cleared)]
                   ELSE p1
    IN  IF Len(p2.children) = 1 /\ ~hasValue(p2)
        THEN merge(p2)
        ELSE p2

\* Lines 291-313 for a node n = parent.children[i] that is not the root:
\* the value is cleared, then the three restructuring steps run in order.
RemoveAt(parent, i, parentIsRoot) ==
    LET n       == parent.children[i + 1]
        cleared == [n EXCEPT !.value = <<>>]
        p1      == IF Len(cleared.children) = 0
                   THEN [parent EXCEPT !.children = Take(@, i) \o Drop(@, i + 1)]
                   ELSE [parent EXCEPT !.children[i + 1] = cleared]
        p2      == IF Len(cleared.children) = 1
                   THEN [p1 EXCEPT !.children[i + 1] = merge(cleared)]
                   ELSE p1
    IN  IF ~parentIsRoot /\ Len(p2.children) = 1 /\ ~hasValue(p2)
        THEN merge(p2)
        ELSE p2

\* RemoveFound without t.size--.
RemoveFoundUncounted(n, i, nIsRoot) ==
    LET child == n.children[i + 1]
    IN  IF hasValue(child)
        THEN RemoveResult(RemoveAt(n, i, nIsRoot), <<child.value[1], TRUE>>, 0)
        ELSE RemoveResult(n, <<Zero, FALSE>>, 0)

\* RemoveFound with t.size-- outside the test of n.hasValue().
RemoveFoundUnchecked(n, i, nIsRoot) ==
    LET child == n.children[i + 1]
    IN  IF hasValue(child)
        THEN RemoveResult(RemoveAt(n, i, nIsRoot), <<child.value[1], TRUE>>, 1)
        ELSE RemoveResult(n, <<Zero, FALSE>>, 1)

\* Lines 291-316 when the key is consumed at n.children[i].
RemoveFound(n, i, nIsRoot) ==
    LET child == n.children[i + 1]
    IN  IF hasValue(child)
        THEN RemoveResult(RemoveAt(n, i, nIsRoot), <<child.value[1], TRUE>>, 1)
        ELSE RemoveResult(n, <<Zero, FALSE>>, 0)

\* Lines 277-289 from a node n with key left to consume.
RECURSIVE RemoveLoop(_, _, _)
RemoveLoop(n, key, nIsRoot) ==
    LET i == index(n.children, key[1])
    IN  IF i < 0
        THEN RemoveResult(n, <<Zero, FALSE>>, 0)
        ELSE LET child == n.children[i + 1]
                 rest  == Drop(key, Len(child.prefix))
             IN  IF ~HasPrefix(key, child.prefix)
                 THEN RemoveResult(n, <<Zero, FALSE>>, 0)
                 ELSE IF Len(rest) > 0
                 THEN LET r == RemoveLoop(child, rest, FALSE)
                      IN  RemoveResult([n EXCEPT !.children[i + 1] = r.node],
                                       r.ret, r.shrink)
                 ELSE RemoveFound(n, i, nIsRoot)

\* Remove answering not found for the empty key.
RemoveOpKeyRequired(t, key) ==
    IF Len(key) > 0
    THEN RemoveLoop(t, key, TRUE)
    ELSE RemoveResult(t, <<Zero, FALSE>>, 0)

RemoveOp(t, key) ==
    IF Len(key) > 0
    THEN RemoveLoop(t, key, TRUE)
    ELSE IF hasValue(t)
         THEN RemoveResult([t EXCEPT !.value = <<>>], <<t.value[1], TRUE>>, 1)
         ELSE RemoveResult(t, <<Zero, FALSE>>, 0)

RECURSIVE LongestPrefixLoop(_, _, _)
LongestPrefixLoop(n, key, last) ==
    LET c == get(n.children, key[1])
    IN  IF Len(key) > 0 /\ c # <<>> /\ HasPrefix(key, c[1].prefix)
        THEN LongestPrefixLoop(c[1], Drop(key, Len(c[1].prefix)),
                               IF hasValue(c[1]) THEN c[1].value ELSE last)
        ELSE IF last # <<>> THEN <<last[1], TRUE>> ELSE <<Zero, FALSE>>

LongestPrefix(t, key) == LongestPrefixLoop(t, key, <<>>)

Max(t) == max(t)

Min(t) == min(t)

\* PredecessorMin without the case of a first child below a node with a value.
PredecessorMinSiblingOnly(n, i, mn, ancestor) ==
    IF i > 0
    THEN [mn |-> <<n.children[i]>>, ancestor |-> FALSE]
    ELSE [mn |-> mn, ancestor |-> ancestor]

\* Lines 246-252: the locals min and ancestor after the step through
\* n.children[i]; mn is min (<<>> for nil, <<node>> otherwise).
PredecessorMin(n, i, mn, ancestor) ==
    IF i > 0
    THEN [mn |-> <<n.children[i]>>, ancestor |-> FALSE]
    ELSE IF hasValue(n)
    THEN [mn |-> <<n>>, ancestor |-> TRUE]
    ELSE [mn |-> mn, ancestor |-> ancestor]

RECURSIVE PredecessorLoop(_, _, _, _)
PredecessorLoop(n, key, mn, ancestor) ==
    IF Len(key) > 0
    THEN LET i == index(n.children, key[1])
         IN  IF i < 0 \/ ~HasPrefix(key, n.children[i + 1].prefix)
             THEN <<Zero, FALSE>>
             ELSE LET child == n.children[i + 1]
                      rest  == Drop(key, Len(child.prefix))
                      m     == PredecessorMin(n, i, mn, ancestor)
                  IN  PredecessorLoop(child, rest, m.mn, m.ancestor)
    ELSE IF mn # <<>>
         THEN IF ancestor THEN <<mn[1].value[1], TRUE>> ELSE max(mn[1])
         ELSE <<Zero, FALSE>>

Predecessor(t, key) == PredecessorLoop(t, key, <<>>, FALSE)

\* SuccessorMin taking n.children[i] for the next sibling.
SuccessorMinSameChild(n, i, mn) ==
    LET r == i + 1
    IN  IF r < Len(n.children) THEN <<n.children[i + 1]>> ELSE mn

\* Lines 341-343: the local min after the step through n.children[i].
SuccessorMin(n, i, mn) ==
    LET r == i + 1
    IN  IF r < Len(n.children) THEN <<n.children[r + 1]>> ELSE mn

RECURSIVE SuccessorLoop(_, _, _)
SuccessorLoop(n, key, mn) ==
    IF Len(key) > 0
    THEN LET i == index(n.children, key[1])
         IN  IF i < 0 \/ ~HasPrefix(key, n.children[i + 1].prefix)
             THEN <<Zero, FALSE>>
             ELSE LET child == n.children[i + 1]
                      rest  == Drop(key, Len(child.prefix))
                  IN  SuccessorLoop(child, rest, SuccessorMin(n, i, mn))
    ELSE LET m == IF Len(n.children) # 0 THEN <<n.children[1]>> ELSE mn
         IN  IF m # <<>> THEN min(m[1]) ELSE <<Zero, FALSE>>

Successor(t, key) == SuccessorLoop(t, key, <<>>)

\* walk(n, f) for a visitor f given as a function from values to BOOLEAN:
\* ok is walk's result, calls the values f was called with, in order.
RECURSIVE walk(_, _)
RECURSIVE walkChildren(_, _, _)

\* walk visiting the children before the node's own value.
walkChildrenFirst(n, f) ==
    LET kids == walkChildren(n.children, 1, f)
    IN  IF ~kids.ok
        THEN kids
        ELSE IF hasValue(n)
        THEN [ok |-> f[n.value[1]], calls |-> kids.calls \o <<n.value[1]>>]
        ELSE kids

\* walk calling f with a node's value only where the node has no children.
walkValueAtLeaf(n, f) ==
    IF Len(n.children) > 0
    THEN walkChildren(n.children, 1, f)
    ELSE IF hasValue(n)
    THEN [ok |-> f[n.value[1]], calls |-> <<n.value[1]>>]
    ELSE [ok |-> TRUE, calls |-> <<>>]

\* The range loop of walk going on to the next child whatever walk returned.
RECURSIVE walkChildrenNoStop(_, _, _)
walkChildrenNoStop(c, j, f) ==
    IF j > Len(c)
    THEN [ok |-> TRUE, calls |-> <<>>]
    ELSE LET r    == walk(c[j], f)
             rest == walkChildrenNoStop(c, j + 1, f)
         IN  [ok |-> r.ok /\ rest.ok, calls |-> r.calls \o rest.calls]

walk(n, f) ==
    IF hasValue(n) /\ ~f[n.value[1]]
    THEN [ok |-> FALSE, calls |-> <<n.value[1]>>]
    ELSE LET own  == IF hasValue(n) THEN <<n.value[1]>> ELSE <<>>
             kids == walkChildren(n.children, 1, f)
         IN  [ok |-> kids.ok, calls |-> own \o kids.calls]

\* The range loop of walk from child j on.
walkChildren(c, j, f) ==
    IF j > Len(c)
    THEN [ok |-> TRUE, calls |-> <<>>]
    ELSE LET r == walk(c[j], f)
         IN  IF ~r.ok
             THEN r
             ELSE LET rest == walkChildren(c, j + 1, f)
                  IN  [ok |-> rest.ok, calls |-> r.calls \o rest.calls]

\* The descent of Walk with n = nil where the rest of the prefix is not
\* matched by the whole prefix of the child.
RECURSIVE WalkDescentMiss(_, _)
WalkDescentMiss(n, prefix) ==
    IF Len(prefix) > 0
    THEN LET c == get(n.children, prefix[1])
         IN  IF c = <<>>
             THEN <<>>
             ELSE IF ~HasPrefix(prefix, c[1].prefix)
             THEN <<>>
             ELSE WalkDescentMiss(c[1], Drop(prefix, Len(c[1].prefix)))
    ELSE <<n>>

\* The descent of Walk: the node walk starts from (<<n>>), or <<>> for nil.
RECURSIVE WalkDescent(_, _)
WalkDescent(n, prefix) ==
    IF Len(prefix) > 0
    THEN LET c == get(n.children, prefix[1])
         IN  IF c = <<>>
             THEN <<>>
             ELSE IF ~HasPrefix(prefix, c[1].prefix)
             THEN c
             ELSE WalkDescent(c[1], Drop(prefix, Len(c[1].prefix)))
    ELSE <<n>>

\* The values Walk(prefix, f) calls f with, in order.
Walk(t, prefix, f) ==
    LET n == WalkDescent(t, prefix)
    IN  IF n # <<>> THEN walk(n[1], f).calls ELSE <<>>

\* The visitors of the model: f's answer is a function of the value.
Visitors == [Vals -> BOOLEAN]

\* The visitor of Find and Values: appends and returns true.
Collect == [v \in Vals |-> TRUE]

Find(t, prefix) == Walk(t, prefix, Collect)

Values(t) == Walk(t, <<>>, Collect)

----------------------------------------------------------------------------
\* The tree in use: a caller applies one operation after the other.  root and
\* size are the RadixTree's fields; op and ret are the last call and what it
\* returned; kv is the finite map the calls so far describe (<<>> for a key
\* that is not stored, <<v>> for a key stored with v), kept beside the tree
\* to state what the calls should return.  Each action sets op first: what
\* ret holds depends on the call.  inflight is <<>> but while an Insert runs
\* statement by statement beside a reader (SpecConc below).

Init ==
    /\ root = New
    /\ size = 0
    /\ kv = [k \in Keys |-> <<>>]
    /\ op = "New"
    /\ ret = <<>>
    /\ inflight = <<>>

DoInsert(k, v) ==
    /\ size < MaxSize
    /\ op' = "Insert"
    /\ kv' = [kv EXCEPT ![k] = <<v>>]
    /\ LET r == InsertOp(root, k, v)
       IN  /\ root' = r.node
           /\ size' = size + r.grow
           /\ ret' = r.ret
    /\ UNCHANGED inflight

DoRemove(k) ==
    /\ op' = "Remove"
    /\ kv' = [kv EXCEPT ![k] = <<>>]
    /\ LET r == RemoveOp(root, k)
       IN  /\ root' = r.node
           /\ size' = size - r.shrink
           /\ ret' = r.ret
    /\ UNCHANGED inflight

DoGet(k) ==
    /\ op' = "Get"
    /\ ret' = Get(root, k)
    /\ UNCHANGED <<root, size, kv, inflight>>

DoContains(k) ==
    /\ op' = "Contains"
    /\ ret' = Contains(root, k)
    /\ UNCHANGED <<root, size, kv, inflight>>

DoLen ==
    /\ op' = "Len"
    /\ ret' = TreeLen(size)
    /\ UNCHANGED <<root, size, kv, inflight>>

DoValues ==
    /\ op' = "Values"
    /\ ret' = Values(root)
    /\ UNCHANGED <<root, size, kv, inflight>>

DoFind(p) ==
    /\ op' = "Find"
    /\ ret' = Find(root, p)
    /\ UNCHANGED <<root, size, kv, inflight>>

DoLongestPrefix(k) ==
    /\ op' = "LongestPrefix"
    /\ ret' = LongestPrefix(root, k)
    /\ UNCHANGED <<root, size, kv, inflight>>

DoMin ==
    /\ op' = "Min"
    /\ ret' = Min(root)
    /\ UNCHANGED <<root, size, kv, inflight>>

DoMax ==
    /\ op' = "Max"
    /\ ret' = Max(root)
    /\ UNCHANGED <<root, size, kv, inflight>>

DoPredecessor(k) ==
    /\ op' = "Predecessor"
    /\ ret' = Predecessor(root, k)
    /\ UNCHANGED <<root, size, kv, inflight>>

DoSuccessor(k) ==
    /\ op' = "Successor"
    /\ ret' = Successor(root, k)
    /\ UNCHANGED <<root, size, kv, inflight>>

\* ret is the sequence of values f was called with.
DoWalk(p, f) ==
    /\ op' = "Walk"
    /\ ret' = Walk(root, p, f)
    /\ UNCHANGED <<root, size, kv, inflight>>

Next ==
    \/ \E k \in Keys, v \in Vals : DoInsert(k, v)
    \/ \E k \in Keys : DoRemove(k)
    \/ \E k \in Keys : DoGet(k)
    \/ \E k \in Keys : DoContains(k)
    \/ DoLen
    \/ DoValues
    \/ \E p \in Keys : DoFind(p)
    \/ \E k \in Keys : DoLongestPrefix(k)
    \/ DoMin
    \/ DoMax
    \/ \E k \in Keys : DoPredecessor(k)
    \/ \E k \in Keys : DoSuccessor(k)

Spec == Init /\ [][Next]_vars

\* The states reachable by Insert and Remove from New().
NextMutate ==
    \/ \E k \in Keys, v \in Vals : DoInsert(k, v)
    \/ \E k \in Keys : DoRemove(k)

SpecMutate == Init /\ [][NextMutate]_vars

\* Unsynchronised use: one goroutine calls Insert while another calls Get.
\* Insert and Remove run as a whole while no Insert is in flight; an Insert
\* that splits an edge may also run statement by statement, and Get runs
\* between its statements.  inflight holds the call's key and value, the
\* tree it started from, how far it has run, and the key the reader has
\* looked up since (<<>> for none, <<k>> for k).

InsertBegin(k, v) ==
    /\ inflight = <<>>
    /\ size < MaxSize
    /\ InsertLoopUpTo(root, k, "replaced").split
    /\ root' = InsertLoopUpTo(root, k, "replaced").node
    /\ inflight' = [key |-> k, value |-> v, from |-> root,
                    stage |-> "replaced", read |-> <<>>]
    /\ UNCHANGED <<size, kv, op, ret>>

InsertAttach ==
    /\ inflight # <<>>
    /\ inflight.stage = "replaced"
    /\ root' = InsertLoopUpTo(inflight.from, inflight.key, "attached").node
    /\ inflight' = [inflight EXCEPT !.stage = "attached"]
    /\ UNCHANGED <<size, kv, op, ret>>

InsertFinish ==
    /\ inflight # <<>>
    /\ inflight.stage = "attached"
    /\ op' = "Insert"
    /\ kv' = [kv EXCEPT ![inflight.key] = <<inflight.value>>]
    /\ LET r == InsertOp(inflight.from, inflight.key, inflight.value)
       IN  /\ root' = r.node
           /\ size' = size + r.grow
           /\ ret' = r.ret
    /\ inflight' = <<>>

DoGetDuring(k) ==
    /\ inflight # <<>>
    /\ op' = "Get"
    /\ ret' = Get(root, k)
    /\ inflight' = [inflight EXCEPT !.read = <<k>>]
    /\ UNCHANGED <<root, size, kv>>

NextConc ==
    \/ \E k \in Keys, v \in Vals : inflight = <<>> /\ DoInsert(k, v)
    \/ \E k \in Keys : inflight = <<>> /\ DoRemove(k)
    \/ \E k \in Keys, v \in Vals : InsertBegin(k, v)
    \/ InsertAttach
    \/ InsertFinish
    \/ \E k \in Keys : DoGetDuring(k)

SpecConc == Init /\ [][NextConc]_vars

\* The loops of the calls, one iteration a step.  While a call runs inflight
\* holds its name, the key it was given (and the value, for Insert), the
\* node n and what is left of the key at the head of the loop, and the
\* number of iterations done; op is the call and ret is <<>> until it
\* returns.

\* One iteration of the loop "for len(key) > 0" of Get (lines 113-120),
\* LongestPrefix (198-207), Predecessor (239-255), Remove (277-289),
\* Successor (335-347) and Walk (376-382) with n and key at its head: <<>>
\* when the iteration returns or breaks, <<n, key>> for the next one.
MatchIterationKeepKey(n, key) ==
    LET c == get(n.children, key[1])
    IN  IF c = <<>> \/ ~HasPrefix(key, c[1].prefix)
        THEN <<>>
        ELSE <<c[1], key>>

MatchIteration(n, key) ==
    LET c == get(n.children, key[1])
    IN  IF c = <<>> \/ ~HasPrefix(key, c[1].prefix)
        THEN <<>>
        ELSE <<c[1], Drop(key, Len(c[1].prefix))>>

\* One iteration of the loop of Insert (lines 137-170): it returns when no
\* child has the first byte or the child's edge is split.
InsertIteration(n, key) ==
    LET i == index(n.children, key[1])
    IN  IF i < 0
        THEN <<>>
        ELSE LET child == n.children[i + 1]
                 lcm   == longestCommonPrefix(key, child.prefix)
             IN  IF lcm < Len(child.prefix)
                 THEN <<>>
                 ELSE <<child, Drop(key, lcm)>>

\* The loops of Min and Max (min, lines 67-69; max, lines 56-58), which have
\* no key, then the loops with a key.
Iteration(name, n, key) ==
    IF name = "Max"
    THEN IF Len(n.children) > 0
         THEN <<n.children[Len(n.children)], key>>
         ELSE <<>>
    ELSE IF name = "Min"
    THEN IF ~hasValue(n) /\ Len(n.children) > 0
         THEN <<n.children[1], key>>
         ELSE <<>>
    ELSE IF Len(key) = 0
    THEN <<>>
    ELSE IF name = "Insert"
    THEN InsertIteration(n, key)
    ELSE MatchIteration(n, key)

Looping == {"Get", "Insert", "Remove", "LongestPrefix", "Predecessor",
            "Successor", "Find", "Min", "Max"}

\* What the call returns.
Returned(name, t, key) ==
    IF name = "Get" THEN Get(t, key)
    ELSE IF name = "LongestPrefix" THEN LongestPrefix(t, key)
    ELSE IF name = "Predecessor" THEN Predecessor(t, key)
    ELSE IF name = "Successor" THEN Successor(t, key)
    ELSE IF name = "Find" THEN Find(t, key)
    ELSE IF name = "Min" THEN Min(t)
    ELSE Max(t)

Call(name, k, v) ==
    /\ inflight = <<>>
    /\ name = "Insert" => size < MaxSize
    /\ op' = name
    /\ ret' = <<>>
    /\ inflight' = [name |-> name, given |-> k, value |-> v,
                    n |-> root, key |-> k, steps |-> 0]
    /\ UNCHANGED <<root, size, kv>>

Iterate ==
    /\ inflight # <<>>
    /\ Iteration(inflight.name, inflight.n, inflight.key) # <<>>
    /\ LET next == Iteration(inflight.name, inflight.n, inflight.key)
       IN  inflight' = [inflight EXCEPT !.n = next[1], !.key = next[2],
                                        !.steps = @ + 1]
    /\ UNCHANGED <<root, size, kv, op, ret>>

Return ==
    /\ inflight # <<>>
    /\ Iteration(inflight.name, inflight.n, inflight.key) = <<>>
    /\ inflight' = <<>>
    /\ UNCHANGED op
    /\ IF inflight.name = "Insert"
       THEN LET r == InsertOp(root, inflight.given, inflight.value)
            IN  /\ root' = r.node
                /\ size' = size + r.grow
                /\ ret' = r.ret
                /\ kv' = [kv EXCEPT ![inflight.given] = <<inflight.value>>]
       ELSE IF inflight.name = "Remove"
       THEN LET r == RemoveOp(root, inflight.given)
            IN  /\ root' = r.node
                /\ size' = size - r.shrink
                /\ ret' = r.ret
                /\ kv' = [kv EXCEPT ![inflight.given] = <<>>]
       ELSE /\ ret' = Returned(inflight.name, root, inflight.given)
            /\ UNCHANGED <<root, size, kv>>

\* No loop looks at a value: the calls of this specification insert Zero.
NextDescent ==
    \/ \E name \in Looping, k \in Keys :
           Call(name, IF name \in {"Min", "Max"} THEN <<>> ELSE k, Zero)
    \/ Iterate
    \/ Return

SpecDescent == Init /\ [][NextDescent]_vars

\* A caller that inserts, removes and walks the tree with a visitor.
NextWalk ==
    \/ \E k \in Keys, v \in Vals : DoInsert(k, v)
    \/ \E k \in Keys : DoRemove(k)
    \/ \E p \in Keys, f \in Visitors : DoWalk(p, f)

SpecWalk == Init /\ [][NextWalk]_vars

----------------------------------------------------------------------------
\* What the calls should return, stated on kv alone.

Stored == {k \in Keys : kv[k] # <<>>}

\* p is a byte-prefix of k.
BytePrefix(p, k) ==
    /\ Len(p) <= Len(k)
    /\ \A j \in 1..Len(p) : p[j] = k[j]

\* a < b in bytewise lexicographic order (a key precedes its extensions).
LexLess(a, b) ==
    \E i \in 0..Len(a) :
        /\ i <= Len(b)
        /\ \A j \in 1..i : a[j] = b[j]
        /\ IF i = Len(a) THEN Len(b) > i ELSE Len(b) > i /\ a[i + 1] < b[i + 1]

RECURSIVE Ascending(_)
Ascending(S) ==
    IF S = {}
    THEN <<>>
    ELSE LET m == CHOOSE x \in S : \A y \in S \ {x} : LexLess(x, y)
         IN  <<m>> \o Ascending(S \ {m})

\* The values of the keys ks, in the order of ks.
ValuesOf(ks) == [j \in 1..Len(ks) |-> kv[ks[j]][1]]

\* (v, true) for a stored key, (zero value, false) otherwise.
Lookup(k) == IF kv[k] # <<>> THEN <<kv[k][1], TRUE>> ELSE <<Zero, FALSE>>

\* Every key but k is stored with 0 or not at all: a call that returns the
\* value 1 returns the value of k.
OnlyOne(k) ==
    /\ kv[k] = <<1>>
    /\ \A j \in Keys \ {k} : kv[j] # <<1>>

----------------------------------------------------------------------------
\* C1: after any sequence of Insert and Remove, for every key k Get(k)
\* returns (v, true) if the last mutation of k was Insert(k, v) and (zero
\* value, false) if k was never inserted or was last removed, and
\* Contains(k) is the found flag of Get(k).
C1_GetIsMapLookup ==
    \A k \in Keys :
        /\ Get(root, k) = Lookup(k)
        /\ Contains(root, k) = Get(root, k)[2]
        /\ Contains(root, k) = (k \in Stored)

\* Get has returned (1, true) on a tree that stores 11 and 12 and in which
\* 11 alone has the value 1.
C1_Witness ==
    /\ op = "Get"
    /\ ret = <<1, TRUE>>
    /\ OnlyOne(<<1, 1>>)
    /\ Stored = {<<1, 1>>, <<1, 2>>}
    /\ size = 2

\* C2: Insert(k, v) on a key stored with u returns (u, true) and leaves
\* Len() unchanged; on a key that is not stored (absent path, path ending
\* inside an edge, or at a branch node without a value) it returns (zero
\* value, false) and Len() grows by exactly 1.
C2_InsertResult ==
    [][\A k \in Keys, v \in Vals :
          DoInsert(k, v) =>
              IF kv[k] # <<>>
              THEN ret' = <<kv[k][1], TRUE>> /\ size' = size
              ELSE ret' = <<Zero, FALSE>> /\ size' = size + 1]_vars

\* Insert has returned (zero value, false) and brought the tree to three
\* keys: 1, with its value at the only child of the root, above 11 and 12.
C2_Witness ==
    /\ op = "Insert"
    /\ ret = <<Zero, FALSE>>
    /\ Stored = {<<1>>, <<1, 1>>, <<1, 2>>}
    /\ size = 3
    /\ Len(root.children) = 1
    /\ root.children[1].value = <<1>>
    /\ kv[<<1, 1>>] = <<0>>
    /\ kv[<<1, 2>>] = <<0>>

\* C3: Remove(k) on a key stored with v returns (v, true); afterwards
\* Contains(k) is false and Len() is one less, whichever restructuring
\* applies.
C3_RemoveStored ==
    [][\A k \in Keys :
          (DoRemove(k) /\ kv[k] # <<>>) =>
              /\ ret' = <<kv[k][1], TRUE>>
              /\ ~Contains(root', k)
              /\ size' = size - 1]_vars

\* Remove has returned (1, true) and left two keys, 111 in a single node
\* below the root and 2.
C3_Witness ==
    /\ op = "Remove"
    /\ ret = <<1, TRUE>>
    /\ Stored = {<<1, 1, 1>>, <<2>>}
    /\ size = 2
    /\ root.children[1].prefix = <<1, 1, 1>>

\* C4: Remove(k) on a key that is not stored (absent path, path ending
\* inside an edge, or at a branch node without a value) returns (zero value,
\* false) and leaves the tree unchanged: nodes, prefixes, values and Len().
C4_RemoveAbsent ==
    [][\A k \in Keys :
          (DoRemove(k) /\ kv[k] = <<>>) =>
              /\ ret' = <<Zero, FALSE>>
              /\ root' = root
              /\ size' = size]_vars

\* Remove has returned (zero value, false) on a tree whose first node below
\* the root is a branch node without a value, above 11 and 12.
C4_Witness ==
    /\ op = "Remove"
    /\ ret = <<Zero, FALSE>>
    /\ Stored = {<<1, 1>>, <<1, 2>>, <<2>>}
    /\ size = 3
    /\ ~hasValue(root.children[1])
    /\ Len(root.children[1].children) = 2

\* C5: Values() returns exactly the current value of every stored key, once
\* each, in strictly ascending bytewise lexicographic order of the keys (a
\* key before its extensions).
C5_ValuesSorted == Values(root) = ValuesOf(Ascending(Stored))

\* Values has returned the value of 1, then that of its extension 11, then
\* that of 2.
C5_Witness ==
    /\ op = "Values"
    /\ ret = <<1, 0, 1>>
    /\ kv[<<1>>] = <<1>>
    /\ kv[<<1, 1>>] = <<0>>
    /\ kv[<<2>>] = <<1>>

\* The greatest and the smallest key of a non-empty set of keys.
Greatest(S) == CHOOSE x \in S : \A y \in S \ {x} : LexLess(y, x)

Smallest(S) == CHOOSE x \in S : \A y \in S \ {x} : LexLess(x, y)

\* The longest key of a non-empty set of prefixes of one key.
Longest(S) == CHOOSE x \in S : \A y \in S : Len(y) <= Len(x)

\* (value of the chosen key, true) for a non-empty set S of stored keys, (zero
\* value, false) for the empty set.
ValueOfChosen(S, choice(_)) ==
    IF S = {} THEN <<Zero, FALSE>> ELSE <<kv[choice(S)][1], TRUE>>

\* C6: Find(p) yields exactly the values of the stored keys that have p as a
\* byte-prefix, in ascending key order; it is empty when no stored key starts
\* with p, also when p shares the start of an edge and then diverges.
C6_FindExact ==
    [][\A p \in Keys :
          DoFind(p) =>
              ret' = ValuesOf(Ascending({k \in Stored : BytePrefix(p, k)}))]_vars

\* C7: LongestPrefix(k) returns (v, true) for the value v of the longest
\* stored key that is a byte-prefix of k (k itself and the empty key count),
\* and (zero value, false) only when no stored key is a prefix of k.
C7_LongestPrefix ==
    [][\A k \in Keys :
          DoLongestPrefix(k) =>
              ret' = ValueOfChosen({j \in Stored : BytePrefix(j, k)}, Longest)]_vars

\* C8: Min() and Max() return (zero value, false) exactly when no key is
\* stored, and otherwise the values of the lexicographically smallest and
\* largest stored key.
C8_MinMax ==
    /\ Min(root) = ValueOfChosen(Stored, Smallest)
    /\ Max(root) = ValueOfChosen(Stored, Greatest)
    /\ Min(root)[2] = (Stored # {})
    /\ Max(root)[2] = (Stored # {})

\* Max has returned (1, true) on a tree that stores the empty key, 1 and
\* 111, in which 111 alone has the value 1.
C8_Witness ==
    /\ op = "Max"
    /\ ret = <<1, TRUE>>
    /\ OnlyOne(<<1, 1, 1>>)
    /\ Stored = {<<>>, <<1>>, <<1, 1, 1>>}

\* C9: for every stored key k, Predecessor(k) returns (v, true) for the value
\* v of the greatest stored key strictly smaller than k, and (zero value,
\* false) when k is the smallest stored key.
C9_Predecessor ==
    \A k \in Stored :
        Predecessor(root, k) =
            ValueOfChosen({j \in Stored : LexLess(j, k)}, Greatest)

\* Predecessor has returned (1, true) on a tree that stores 1, 11 and 2, in
\* which 1 alone has the value 1: the predecessor of 11 is its prefix 1.
C9_Witness ==
    /\ op = "Predecessor"
    /\ ret = <<1, TRUE>>
    /\ OnlyOne(<<1>>)
    /\ Stored = {<<1>>, <<1, 1>>, <<2>>}

\* C10: for every stored key k, Successor(k) returns (v, true) for the value
\* v of the smallest stored key strictly greater than k, and (zero value,
\* false) when k is the largest stored key.
C10_Successor ==
    \A k \in Stored :
        Successor(root, k) =
            ValueOfChosen({j \in Stored : LexLess(k, j)}, Smallest)

\* Successor has returned (1, true) on a tree that stores 11, 12 and 2, in
\* which 2 alone has the value 1: the successor of 12 is 2, the sibling of
\* the branch node above 11 and 12.
C10_Witness ==
    /\ op = "Successor"
    /\ ret = <<1, TRUE>>
    /\ OnlyOne(<<2>>)
    /\ Stored = {<<1, 1>>, <<1, 2>>, <<2>>}

\* C11: Predecessor(k) and Successor(k) return (zero value, false) for every
\* key k that is not stored, whether its path ends at a branch node that
\* holds no value or it was stored and has since been removed.
C11_NeighboursOfAbsent ==
    [][\A k \in Keys :
          ((DoPredecessor(k) \/ DoSuccessor(k)) /\ kv[k] = <<>>)
              => ret' = <<Zero, FALSE>>]_vars

\* The values of s up to and including the first one f answers false to.
RECURSIVE UpToFirstFalse(_, _)
UpToFirstFalse(s, f) ==
    IF s = <<>>
    THEN <<>>
    ELSE IF ~f[Head(s)]
    THEN <<Head(s)>>
    ELSE <<Head(s)>> \o UpToFirstFalse(Tail(s), f)

\* C12: Walk(p, f) calls f on the values of the subtree selected by p in
\* ascending key order and stops at the first call in which f returns false:
\* the values passed to f are the full ascending sequence cut after the first
\* value f returned false for.  The full sequence is that of the stored keys
\* starting with p; where no stored key starts with p it is what Walk passes
\* to a visitor that always returns true.
C12_WalkStops ==
    \A p \in Keys, f \in Visitors :
        LET m    == {k \in Stored : BytePrefix(p, k)}
            full == IF m # {}
                    THEN ValuesOf(Ascending(m))
                    ELSE Walk(root, p, Collect)
        IN  Walk(root, p, f) = UpToFirstFalse(full, f)

\* Walk has called f with 0 and then 1 and no more on a tree that stores the
\* empty key with 0, 11 with 1 and 2 with 0: only a walk from the root that
\* stopped below the child 1 passes these values, the sibling 2 unvisited.
C12_Witness ==
    /\ op = "Walk"
    /\ ret = <<0, 1>>
    /\ Stored = {<<>>, <<1, 1>>, <<2>>}
    /\ kv[<<>>] = <<0>>
    /\ kv[<<1, 1>>] = <<1>>
    /\ kv[<<2>>] = <<0>>

\* C13: the empty key is an ordinary key whose value lives at the root.  On
\* a tree that does not store it Contains(empty) is false and Insert(empty,
\* v) returns (zero value, false) and raises Len() by 1, after which
\* Get(empty) and Min() are (v, true) and v is the first of Values();
\* Remove(empty) of the stored empty key returns its value with true, lowers
\* Len() by 1 and leaves the root in place with all its children and every
\* other key as it was.
C13_EmptyKey ==
    [][/\ kv[<<>>] = <<>> => ~Contains(root, <<>>)
       /\ \A v \in Vals :
              (DoInsert(<<>>, v) /\ kv[<<>>] = <<>>)
                  => /\ ret' = <<Zero, FALSE>>
                     /\ TreeLen(size') = TreeLen(size) + 1
                     /\ Get(root', <<>>) = <<v, TRUE>>
                     /\ Min(root') = <<v, TRUE>>
                     /\ Head(Values(root')) = v
                     /\ root'.children = root.children
       /\ (DoRemove(<<>>) /\ kv[<<>>] # <<>>)
              => /\ ret' = <<kv[<<>>][1], TRUE>>
                 /\ TreeLen(size') = TreeLen(size) - 1
                 /\ root' = [root EXCEPT !.value = <<>>]
                 /\ root'.children = root.children
                 /\ \A k \in Keys \ {<<>>} : Get(root', k) = Get(root, k)
      ]_vars

\* Insert has returned (0, false) and left the empty key the only stored
\* key, with the value 1 at the root: the key inserted was the empty key and
\* it was not stored before.
C13_Witness ==
    /\ op = "Insert"
    /\ ret = <<Zero, FALSE>>
    /\ Stored = {<<>>}
    /\ size = 1
    /\ root = NewNode(<<>>, <<1>>, <<>>)

\* No node below n has an empty prefix.
RECURSIVE NoEmptyPrefix(_)
NoEmptyPrefix(n) ==
    \A j \in 1..Len(n.children) :
        /\ Len(n.children[j].prefix) > 0
        /\ NoEmptyPrefix(n.children[j])

\* What a call returns for a value: (v, true), or (zero value, false).
Answers == {<<v, TRUE>> : v \in Vals} \cup {<<Zero, FALSE>>}

\* C14: no operation fails, whatever the key and whatever the reachable
\* state (empty tree, empty key and empty prefix included): no node of the
\* tree has an empty prefix, so no first byte is taken out of range, neither
\* in the tree a call starts from nor of a node an Insert or Remove has left
\* in it, and every call has returned a value with true or the zero value
\* with false, Contains a boolean, Len a natural number, Find and Values a
\* sequence of values.
C14_NoFailure ==
    /\ NoEmptyPrefix(root)
    /\ op \in {"Insert", "Remove", "Get", "LongestPrefix", "Min", "Max",
               "Predecessor", "Successor"} => ret \in Answers
    /\ op \in {"Find", "Values"} => ret \in Seq(Vals)
    /\ op = "Contains" => ret \in BOOLEAN
    /\ op = "Len" => ret \in Nat

\* Predecessor has been called on a tree without any node but the root and
\* has returned (0, false).
C14_Witness ==
    /\ op = "Predecessor"
    /\ ret = <<Zero, FALSE>>
    /\ root = New
    /\ size = 0

\* The number of nodes of the tree below and including n that hold a value.
RECURSIVE holding(_)
RECURSIVE holdingFrom(_, _)
holding(n) == (IF hasValue(n) THEN 1 ELSE 0) + holdingFrom(n.children, 1)
holdingFrom(c, j) ==
    IF j > Len(c) THEN 0 ELSE holding(c[j]) + holdingFrom(c, j + 1)

\* C15: Len() is the number of nodes holding a value, which is the number of
\* distinct keys stored; it is 0 on a new tree and never negative.
C15_LenCounts ==
    /\ TreeLen(size) = holding(root)
    /\ TreeLen(size) = Cardinality(Stored)
    /\ TreeLen(size) >= 0
    /\ op = "New" => TreeLen(size) = 0

\* Len has returned 2 on a tree that stores 11 and 12 below a branch node
\* that holds no value: three nodes below the root, two of them counted.
C15_Witness ==
    /\ op = "Len"
    /\ ret = 2
    /\ Stored = {<<1, 1>>, <<1, 2>>}
    /\ Len(root.children) = 1
    /\ ~hasValue(root.children[1])

\* The keys stored below the edge that the Insert in flight splits: the
\* stored keys that share with its key the longest part any stored key
\* shares with it.
SplitEdge ==
    LET shares(j) == {k \in Stored : BytePrefix(Take(inflight.key, j), k)}
        lcm == CHOOSE j \in 0..Len(inflight.key) :
                   /\ shares(j) # {}
                   /\ \A h \in (j + 1)..Len(inflight.key) : shares(h) = {}
    IN  shares(lcm)

\* C16: the tree is not safe for unsynchronised use.  While an Insert that
\* splits an edge has put the new branch node in the old child's place and
\* has not yet hung the old child below it, a Get of a key stored below the
\* old child, stored before the Insert, throughout it and after it, returns
\* (zero value, false): no order of the two calls explains that answer.
C16_SplitWindow ==
    (inflight # <<>> /\ inflight.stage = "replaced")
        => /\ SplitEdge # {}
           /\ \A k \in SplitEdge :
                  /\ Get(inflight.from, k) = <<kv[k][1], TRUE>>
                  /\ Get(InsertOp(inflight.from, inflight.key,
                                  inflight.value).node, k) = <<kv[k][1], TRUE>>
                  /\ Get(root, k) = <<Zero, FALSE>>

\* While Insert(12, 1) is between the two statements on a tree that stores
\* 11 with the value 1, the reader's Get(11) has returned (0, false).
C16_Witness ==
    /\ inflight # <<>>
    /\ inflight.stage = "replaced"
    /\ inflight.key = <<1, 2>>
    /\ inflight.read = <<<<1, 1>>>>
    /\ kv[<<1, 1>>] = <<1>>
    /\ op = "Get"
    /\ ret = <<Zero, FALSE>>

\* Where consuming p from n stops partway through a child's prefix: <<c>>
\* for the key c of that child (the child selected by the first byte of what
\* is left of p, whose prefix what is left does not start with), <<>> when p
\* is consumed whole or no child is selected.
RECURSIVE PartialStop(_, _, _)
PartialStop(n, p, consumed) ==
    IF Len(p) = 0
    THEN <<>>
    ELSE LET c == get(n.children, p[1])
         IN  IF c = <<>>
             THEN <<>>
             ELSE IF ~HasPrefix(p, c[1].prefix)
             THEN <<consumed \o c[1].prefix>>
             ELSE PartialStop(c[1], Drop(p, Len(c[1].prefix)),
                              consumed \o c[1].prefix)

C18_FindComplete ==
    \A p \in Keys :
        LET m == {k \in Stored : BytePrefix(p, k)}
        IN  \E others \in SUBSET (Stored \ m) :
                Find(root, p) = ValuesOf(Ascending(m \cup others))

\* Find has returned 0, 1, 0 on a tree that stores 1 with 0, 11 with 1 and
\* 111 with 0: the three keys match the prefix searched (the empty one or
\* 1), each along another edge of one path.
C18_Witness ==
    /\ op = "Find"
    /\ ret = <<0, 1, 0>>
    /\ Stored = {<<1>>, <<1, 1>>, <<1, 1, 1>>}
    /\ kv[<<1>>] = <<0>>
    /\ kv[<<1, 1>>] = <<1>>
    /\ kv[<<1, 1, 1>>] = <<0>>

\* The children of n and of every node below it are in strictly ascending
\* order of the first byte of their prefix.
RECURSIVE SortedBelow(_)
SortedBelow(n) ==
    /\ \A j \in 1..(Len(n.children) - 1) :
           first(n.children[j].prefix) < first(n.children[j + 1].prefix)
    /\ \A j \in 1..Len(n.children) : SortedBelow(n.children[j])

\* C19: in every state reachable by Insert and Remove from New() the
\* children of every node are in strictly ascending order of the first byte
\* of their prefix, so no two siblings share a first prefix byte.
C19_ChildrenSorted == SortedBelow(root)

\* Remove has returned a value with true and left 111 and 112, the two
\* children of a node with the prefix 11 that is the root's only child: the
\* key removed was a leaf next to that node or a node on the path to 111,
\* merged with the branch node whose children the node 11 now holds.
C19_Witness ==
    /\ op = "Remove"
    /\ ret \in {<<0, TRUE>>, <<1, TRUE>>}
    /\ Stored = {<<1, 1, 1>>, <<1, 1, 2>>}
    /\ Len(root.children) = 1
    /\ root.children[1].prefix = <<1, 1>>
    /\ Len(root.children[1].children) = 2

\* No node below n is without a value and with exactly one child.
RECURSIVE CompressedBelow(_)
CompressedBelow(n) ==
    \A j \in 1..Len(n.children) :
        /\ hasValue(n.children[j]) \/ Len(n.children[j].children) # 1
        /\ CompressedBelow(n.children[j])

\* C20: in every state reachable by Insert and Remove from New(), between
\* the calls, no node but the root is without a value and with exactly one
\* child.
C20_Compressed == CompressedBelow(root)

\* Remove has returned (1, true) and left 111, whose value is 0, as the only
\* key, in a single node below the root; the root has no value and that one
\* child.
C20_Witness ==
    /\ op = "Remove"
    /\ ret = <<1, TRUE>>
    /\ Stored = {<<1, 1, 1>>}
    /\ kv[<<1, 1, 1>>] = <<0>>
    /\ root = NewNode(<<>>, <<>>, <<NewNode(<<1, 1, 1>>, <<0>>, <<>>)>>)

\* The pairs <<key, value>> of the nodes that hold a value, below and
\* including n, the key of a node being path followed by the prefixes from n
\* down to it.
RECURSIVE Held(_, _)
Held(n, path) ==
    LET key == path \o n.prefix
    IN  (IF hasValue(n) THEN {<<key, n.value[1]>>} ELSE {})
            \cup UNION {Held(n.children[j], key) : j \in 1..Len(n.children)}

\* C21: in every state reachable by Insert and Remove from New() the root's
\* prefix is empty and the prefix of every other node is not, and the
\* prefixes from the root down to a node that holds a value, put together,
\* are that node's key: the nodes with a value are the stored keys with
\* their values.
C21_Prefixes ==
    /\ root.prefix = <<>>
    /\ NoEmptyPrefix(root)
    /\ Held(root, <<>>) = {<<k, kv[k][1]>> : k \in Stored}

\* Remove has returned (1, true) and left 11, whose value is 0, the only key:
\* the root, without a value and with the node 11 as its only child, has not
\* been merged with it.
C21_Witness ==
    /\ op = "Remove"
    /\ ret = <<1, TRUE>>
    /\ Stored = {<<1, 1>>}
    /\ root = NewNode(<<>>, <<>>, <<NewNode(<<1, 1>>, <<0>>, <<>>)>>)

\* Every node below n that has no children holds a value, and max finds a
\* value from every node below n.
RECURSIVE LeavesHold(_)
LeavesHold(n) ==
    \A j \in 1..Len(n.children) :
        /\ Len(n.children[j].children) = 0 => hasValue(n.children[j])
        /\ max(n.children[j])[2]
        /\ LeavesHold(n.children[j])

\* C22: in every state reachable by Insert and Remove from New() every node
\* but the root that has no children holds a value, so the node reached by
\* following last children, from the root and from the root of any subtree,
\* holds a value unless it is the root of a tree that stores nothing.
C22_LeavesHoldValues ==
    /\ LeavesHold(root)
    /\ Max(root)[2] \/ (root = New /\ Stored = {})

\* Remove has returned (0, true) and left 1, whose value is 1, the only key,
\* in a leaf below the root: the node removed is not in the tree any more.
C22_Witness ==
    /\ op = "Remove"
    /\ ret = <<0, TRUE>>
    /\ Stored = {<<1>>}
    /\ root = NewNode(<<>>, <<>>, <<NewNode(<<1>>, <<1>>, <<>>)>>)

\* C23: Remove(k) changes the map only at k: for every reachable tree and
\* every key other than k, Get returns on the tree Remove(k) leaves what it
\* returns on the tree before the call, whether the call
\* merges k's node with its only child, deletes k's leaf or merges k's
\* parent with the child left to it.
C23_RemoveFrame ==
    LET before == [other \in Keys |-> Get(root, other)]
    IN  \A k \in Keys :
            LET after == RemoveOp(root, k).node
            IN  \A other \in Keys \ {k} : Get(after, other) = before[other]

\* Remove has returned (1, true) and left 11 and 111, both with the value 0,
\* 111 in a child of the node 11, and Get finds both (as toa and toad once
\* to is removed).
C23_Witness ==
    /\ op = "Remove"
    /\ ret = <<1, TRUE>>
    /\ Stored = {<<1, 1>>, <<1, 1, 1>>}
    /\ kv[<<1, 1>>] = <<0>>
    /\ kv[<<1, 1, 1>>] = <<0>>
    /\ root.children[1].prefix = <<1, 1>>
    /\ Get(root, <<1, 1>>) = <<0, TRUE>>
    /\ Get(root, <<1, 1, 1>>) = <<0, TRUE>>

\* The tree C24 describes for Insert(key, v) from n, <<tree>>, or <<>> when
\* the call does not reach a child whose prefix shares only a proper part
\* with what is left of the key.  The intermediate node has the L shared
\* bytes as its prefix and stands where the child stood; the old child, its
\* prefix shortened by L, is its child; it holds v if the key is exhausted
\* and otherwise has a second child, a leaf with the rest of the key and v
\* (the two in the order of their first bytes).
RECURSIVE SplitExpected(_, _, _)
SplitExpected(n, key, v) ==
    IF Len(key) = 0
    THEN <<>>
    ELSE LET i == index(n.children, key[1])
         IN  IF i < 0
             THEN <<>>
             ELSE LET child == n.children[i + 1]
                      L     == longestCommonPrefix(key, child.prefix)
                      old   == NewNode(Drop(child.prefix, L), child.value,
                                       child.children)
                      leaf  == NewNode(Drop(key, L), <<v>>, <<>>)
                      mid   == IF Len(key) = L
                               THEN NewNode(Take(key, L), <<v>>, <<old>>)
                               ELSE NewNode(Take(key, L), <<>>,
                                        IF old.prefix[1] < leaf.prefix[1]
                                        THEN <<old, leaf>>
                                        ELSE <<leaf, old>>)
                      below == SplitExpected(child, Drop(key, L), v)
                  IN  IF 0 < L /\ L < Len(child.prefix)
                      THEN <<[n EXCEPT !.children[i + 1] = mid]>>
                      ELSE IF below = <<>>
                      THEN <<>>
                      ELSE <<[n EXCEPT !.children[i + 1] = below[1]]>>

\* C24: when Insert(k, v) reaches a child whose prefix shares only its first
\* L bytes (0 < L < length of the child's prefix) with the remaining key, the
\* tree afterwards is the one with the intermediate node described above in
\* the child's place, the insertion counts as fresh (zero value and false
\* returned, Len() one more) and every key stored before keeps its value.
C24_Split ==
    [][\A k \in Keys, v \in Vals :
          (DoInsert(k, v) /\ SplitExpected(root, k, v) # <<>>)
              => /\ root' = SplitExpected(root, k, v)[1]
                 /\ ret' = <<Zero, FALSE>>
                 /\ size' = size + 1
                 /\ \A other \in Stored :
                        Get(root', other) = <<kv[other][1], TRUE>>]_vars

\* Insert has returned (0, false) and left 11 and 12 the only keys, below a
\* node with the prefix 1 that holds no value: the call found one of them in
\* a leaf 11 or 12 below the root and split that leaf's edge after one byte.
C24_Witness ==
    /\ op = "Insert"
    /\ ret = <<Zero, FALSE>>
    /\ Stored = {<<1, 1>>, <<1, 2>>}
    /\ Len(root.children) = 1
    /\ root.children[1].prefix = <<1>>
    /\ ~hasValue(root.children[1])
    /\ Len(root.children[1].children) = 2

\* The tree C25 describes for Remove(key) from n, <<tree>>, or <<>> when the
\* call does not delete a childless node whose parent is not the root,
\* holds no value and is left with exactly one child.  The parent and the
\* child left to it become one node: the parent's prefix followed by the
\* child's, with the child's value and children.
RECURSIVE ParentMergeExpected(_, _, _)
ParentMergeExpected(n, key, nIsRoot) ==
    IF Len(key) = 0
    THEN <<>>
    ELSE LET i == index(n.children, key[1])
         IN  IF i < 0
             THEN <<>>
             ELSE LET child == n.children[i + 1]
                      left  == n.children[IF i = 0 THEN 2 ELSE 1]
                      below == ParentMergeExpected(
                                   child, Drop(key, Len(child.prefix)), FALSE)
                  IN  IF ~HasPrefix(key, child.prefix)
                      THEN <<>>
                      ELSE IF Len(key) > Len(child.prefix)
                      THEN IF below = <<>>
                           THEN <<>>
                           ELSE <<[n EXCEPT !.children[i + 1] = below[1]]>>
                      ELSE IF /\ hasValue(child)
                              /\ Len(child.children) = 0
                              /\ ~nIsRoot
                              /\ ~hasValue(n)
                              /\ Len(n.children) = 2
                      THEN <<NewNode(n.prefix \o left.prefix, left.value,
                                     left.children)>>
                      ELSE <<>>

\* C25: when Remove(k) deletes a childless node and its parent is not the
\* root, holds no value and is left with exactly one child, the parent is
\* merged with that child into a single node whose prefix is the parent's
\* prefix followed by the child's and which carries the child's value and
\* children.
C25_ParentMerge ==
    [][\A k \in Keys :
          (DoRemove(k) /\ ParentMergeExpected(root, k, TRUE) # <<>>)
              => root' = ParentMergeExpected(root, k, TRUE)[1]]_vars

\* Remove has returned (1, true) and left 12, whose value is 0, the only key,
\* in a single node with the prefix 12 below the root (as will once wit is
\* removed from below wi).
C25_Witness ==
    /\ op = "Remove"
    /\ ret = <<1, TRUE>>
    /\ Stored = {<<1, 2>>}
    /\ root = NewNode(<<>>, <<>>, <<NewNode(<<1, 2>>, <<0>>, <<>>)>>)

\* The tree that Insert builds from New() when called with the keys ks in
\* turn, each with its value in kv.
RECURSIVE Built(_, _)
Built(t, ks) ==
    IF ks = <<>>
    THEN t
    ELSE Built(InsertOp(t, Head(ks), kv[Head(ks)][1]).node, Tail(ks))

\* C26: the tree's structure is a function of its contents alone.  Whatever
\* sequence of Insert and Remove led to a state, its tree is the one that
\* inserting the stored keys with their values in ascending order into a new
\* tree gives, so two sequences that end with the same keys and values end
\* with the same tree; the tree after Insert(k, v) and Remove(k) for a key
\* that was not stored is the tree before.
C26_Canonical ==
    /\ root = Built(New, Ascending(Stored))
    /\ size = Len(Ascending(Stored))

\* Remove has returned (1, true) and left 11 and 12, both with the value 0,
\* in two leaves below a node with the prefix 1: a third key, with the value
\* 1, has been removed and the tree is the one of 11 and 12 alone.
C26_Witness ==
    /\ op = "Remove"
    /\ ret = <<1, TRUE>>
    /\ Stored = {<<1, 1>>, <<1, 2>>}
    /\ kv[<<1, 1>>] = <<0>>
    /\ kv[<<1, 2>>] = <<0>>
    /\ root = NewNode(<<>>, <<>>,
                  <<NewNode(<<1>>, <<>>, <<NewNode(<<1>>, <<0>>, <<>>),
                                           NewNode(<<2>>, <<0>>, <<>>)>>)>>)

\* The number of nodes on the longest path from n down to a leaf, n apart.
RECURSIVE Height(_)
RECURSIVE HeightFrom(_, _)
Height(n) == HeightFrom(n.children, 1)
HeightFrom(c, j) ==
    IF j > Len(c)
    THEN 0
    ELSE LET h    == 1 + Height(c[j])
             rest == HeightFrom(c, j + 1)
         IN  IF h > rest THEN h ELSE rest

\* C27: every public operation terminates.  Each iteration of the descent
\* loop of Get, Insert, Remove, LongestPrefix, Predecessor, Successor and
\* Walk either returns or shortens what is left of the key by at least one
\* byte, so the loop runs at most len(key) times; each iteration of the
\* loops of min and max, like each of the others, goes one node down the
\* tree, whose height bounds their number and is at most the length of a
\* stored key.
C27_Terminates ==
    /\ [](Height(root) = 0 \/ \E k \in Stored : Height(root) <= Len(k))
    /\ [](inflight # <<>> =>
              /\ inflight.steps + Len(inflight.key) <= Len(inflight.given)
                     \/ inflight.name \in {"Min", "Max"}
              /\ inflight.steps + Height(inflight.n) <= Height(root))
    /\ [][Iterate =>
              /\ Len(inflight'.key) < Len(inflight.key)
                     \/ inflight.name \in {"Min", "Max"}
              /\ Height(inflight'.n) < Height(inflight.n)]_vars

\* Get(111) has gone through its loop three times, along the nodes 1, 11 and
\* 111, and has no key left.
C27_Witness ==
    /\ inflight # <<>>
    /\ inflight.name = "Get"
    /\ inflight.given = <<1, 1, 1>>
    /\ inflight.steps = 3
    /\ inflight.key = <<>>
    /\ Stored = {<<1>>, <<1, 1>>, <<1, 1, 1>>}

====
